---- MODULE Spec2Model ----
(***************************************************************************)
(* Model of the school management system.                                  *)
(*                                                                         *)
(* Spec: the data-access layer (src/database_manager.py), the four         *)
(* relations students, instructors, courses and registrations held by one  *)
(* SQLite connection and the DatabaseManager methods that mutate them.  A  *)
(* relation is a bag (multiset) of rows, as in SQL; the constraints of the *)
(* schema decide which INSERT/UPDATE/DELETE statements raise               *)
(* sqlite3.IntegrityError.                                                 *)
(* SpecDisplay: the registrations query over a populated store.            *)
(* SpecDomain: the domain model (src/school_system_backend.py), applied to *)
(* every argument of bounded sets.                                         *)
(* SpecForms: the add and edit forms of the front ends (src/pyqt_app.py,   *)
(* src/tkinter_app.py) on top of the data-access layer.                    *)
(* SpecFiles: backup_database and setup_database next to the student      *)
(* methods; committed is what the file school.db holds.                    *)
(* SpecRoster: the registrations query while students and courses are      *)
(* deleted and added again.                                                *)
(* SpecCourseForms: the course edit of the two front ends.                 *)
(* SpecLifecycle: the callbacks of a front end until its window is closed. *)
(* SpecReads: the get_all and get_by_id queries among the mutations.       *)
(* SpecDropdowns: the registration dropdowns of the Tkinter front end.     *)
(***************************************************************************)
EXTENDS Integers, FiniteSets, Sequences, Bags, TLC

(***************************************************************************)
(* Bounds of the model.                                                    *)
(***************************************************************************)
\* the relations together hold at most MaxRows rows
MaxRows == 4

StudentIds == {"S1", "S2"}
CourseIds == {"C1", "C2"}
InstructorIds == {"I1"}
Names == {"Ann", "Bob"}
CourseNames == {"Algebra", "Art"}
Ages == {20}
Emails == {"ann@x.com"}

\* the SQL NULL stored for a course without instructor
NULL == "NULL"
\* Python's None: what fetchone() returns for an empty SELECT
None == [none |-> TRUE]
\* no exception propagated from the call
NoError == "no exception"

(***************************************************************************)
(* Inputs: the objects the callers hand to the DatabaseManager.            *)
(***************************************************************************)
Student == [student_id : StudentIds, name : Names, age : Ages, email : Emails]
Instructor ==
    [instructor_id : InstructorIds, name : Names, age : Ages, email : Emails]
\* course.instructor is an Instructor object or None
Course == [course_id : CourseIds, course_name : CourseNames,
           instructor : Instructor \cup {None}]

\* the four relations as the connection sees them, the outcome of the last
\* call, the rows the file school.db holds, the DatabaseManager's connection,
\* the application window and the other files of the working directory
\* (file name -> rows it holds)
VARIABLES students, instructors, courses, registrations, last,
          committed, conn, window, files

vars == <<students, instructors, courses, registrations, last,
          committed, conn, window, files>>
tables == <<students, instructors, courses, registrations>>
process == <<conn, window, files>>

\* DatabaseManager("school.db")
db_name == "school.db"

\* the rows of the four relations, as one database
Store ==
    [students |-> students, instructors |-> instructors,
     courses |-> courses, registrations |-> registrations]

\* the connection is open on a school.db that holds the rows, the window is
\* shown, nothing was backed up
Started ==
    /\ committed = Store
    /\ conn = "open"
    /\ window = "shown"
    /\ files = <<>>

\* a method that returns without self.conn.commit()
commit_never == UNCHANGED committed

\* self.conn.commit() follows cursor.execute(): it is reached when execute
\* raised nothing, and writes the connection's rows to school.db
commit == committed' = IF last'.raised = NoError THEN Store' ELSE committed

(***************************************************************************)
(* SQL statements over a relation t (a bag of rows).                       *)
(***************************************************************************)
\* the rows of t selected by WHERE student_id = id, and so on
WhereStudentId(t, id) == {r \in DOMAIN t : r.student_id = id}
WhereInstructorId(t, id) == {r \in DOMAIN t : r.instructor_id = id}
WhereCourseId(t, id) == {r \in DOMAIN t : r.course_id = id}

\* number of rows of t among the selected rows hit
CountRows(t, hit) == BagCardinality([r \in hit \cap DOMAIN t |-> t[r]])

\* INSERT INTO t VALUES row
InsertRow(t, row) == t (+) SetToBag({row})

\* DELETE FROM t WHERE ...: the selected rows hit go
DeleteRows(t, hit) == [r \in DOMAIN t \ hit |-> t[r]]

\* UPDATE t SET ... WHERE ...: every selected row r becomes set[r]
UpdateRows(t, set) ==
    LET hit == DOMAIN set \cap DOMAIN t
        new == {set[x] : x \in hit}
        moved == [n \in new |-> CountRows(t, {x \in hit : set[x] = n})]
    IN  DeleteRows(t, hit) (+) moved

\* SELECT * FROM t WHERE ..., as the set of fetched rows
SelectRows(t, hit) == {x \in hit \cap DOMAIN t : t[x] > 0}

(***************************************************************************)
(* The connection and the schema.                                          *)
(***************************************************************************)
\* sqlite3.connect(db_name): SQLite enforces foreign keys only on a
\* connection that has executed PRAGMA foreign_keys = ON; the constructor
\* (and every later method) never does, so the connection keeps the default.
foreign_keys == FALSE

\* messages of the sqlite3.IntegrityError raised for each constraint
UniqueStudents == "UNIQUE constraint failed: students.student_id"
UniqueInstructors == "UNIQUE constraint failed: instructors.instructor_id"
UniqueCourses == "UNIQUE constraint failed: courses.course_id"
UniqueRegistrations ==
    "UNIQUE constraint failed: registrations.student_id, registrations.course_id"
ForeignKeyFailed == "FOREIGN KEY constraint failed"

IntegrityError ==
    {UniqueStudents, UniqueInstructors, UniqueCourses, UniqueRegistrations,
     ForeignKeyFailed}

\* students(student_id PRIMARY KEY, ...)
StudentKeyTaken(id) == CountRows(students, WhereStudentId(students, id)) > 0
\* instructors(instructor_id PRIMARY KEY, ...)
InstructorKeyTaken(id) ==
    CountRows(instructors, WhereInstructorId(instructors, id)) > 0
\* courses(course_id PRIMARY KEY, ...)
CourseKeyTaken(id) == CountRows(courses, WhereCourseId(courses, id)) > 0
\* registrations declared without its UNIQUE(student_id, course_id)
RegistrationTaken_unconstrained(sid, cid) == FALSE

\* registrations(..., UNIQUE(student_id, course_id))
RegistrationTaken(sid, cid) ==
    CountRows(registrations,
              WhereStudentId(registrations, sid)
                  \cap WhereCourseId(registrations, cid)) > 0
\* registrations.student_id REFERENCES students
StudentReferenced(id) ==
    CountRows(registrations, WhereStudentId(registrations, id)) > 0
\* registrations.course_id REFERENCES courses
CourseReferenced(id) ==
    CountRows(registrations, WhereCourseId(registrations, id)) > 0
\* courses.instructor_id REFERENCES instructors
InstructorReferenced(id) ==
    CountRows(courses, WhereInstructorId(courses, id)) > 0

\* the outcome of a call: what it was, what it was given, what it raised and
\* cursor.rowcount (rows changed by the statement, -1 when it failed)
Call(op, args, raised, rowcount) ==
    [op |-> op, args |-> args, raised |-> raised, rowcount |-> rowcount]

(***************************************************************************)
(* State after SchoolManagementApp has built its DatabaseManager on a      *)
(* fresh file and run setup_database(): four empty relations.              *)
(***************************************************************************)
Init ==
    /\ students = EmptyBag
    /\ instructors = EmptyBag
    /\ courses = EmptyBag
    /\ registrations = EmptyBag
    /\ last = Call("__init__", <<>>, NoError, -1)
    /\ Started

(***************************************************************************)
(* Student methods.                                                        *)
(***************************************************************************)
\* add_student written with INSERT OR REPLACE
add_student_replace(student) ==
    /\ students' = InsertRow(
           DeleteRows(students,
                      WhereStudentId(students, student.student_id)),
           student)
    /\ last' = Call("add_student", student, NoError, 1)
    /\ UNCHANGED <<instructors, courses, registrations>>
    /\ commit
    /\ UNCHANGED process

add_student(student) ==
    /\ IF StudentKeyTaken(student.student_id)
       THEN /\ last' = Call("add_student", student, UniqueStudents, -1)
            /\ UNCHANGED tables
       ELSE /\ students' = InsertRow(students, student)
            /\ last' = Call("add_student", student, NoError, 1)
            /\ UNCHANGED <<instructors, courses, registrations>>
    /\ commit
    /\ UNCHANGED process

\* update_student whose statement is
\* UPDATE students SET student_id = ?, age = ?, email = ? WHERE name = ?
update_student_rekey(student) ==
    /\ LET named == {r \in DOMAIN students : r.name = student.name}
           hit == CountRows(students, named)
           clash == CountRows(students,
                        WhereStudentId(students, student.student_id) \ named)
       IN  IF hit > 1 \/ (hit = 1 /\ clash > 0)
           THEN /\ last' = Call("update_student", student, UniqueStudents, -1)
                /\ UNCHANGED tables
           ELSE /\ students' = UpdateRows(students,
                                 [r \in named |-> [r EXCEPT
                                               !.student_id = student.student_id,
                                               !.age = student.age,
                                               !.email = student.email]])
                /\ last' = Call("update_student", student, NoError, hit)
                /\ UNCHANGED <<instructors, courses, registrations>>
    /\ commit
    /\ UNCHANGED process

\* update_student written with INSERT OR REPLACE
update_student_upsert(student) ==
    /\ students' = InsertRow(
           DeleteRows(students,
                      WhereStudentId(students, student.student_id)),
           student)
    /\ last' = Call("update_student", student, NoError, 1)
    /\ UNCHANGED <<instructors, courses, registrations>>
    /\ commit
    /\ UNCHANGED process

update_student(student) ==
    /\ students' = UpdateRows(students,
                      [r \in WhereStudentId(students, student.student_id) |->
                          [r EXCEPT !.name = student.name,
                                    !.age = student.age,
                                    !.email = student.email]])
    /\ last' = Call("update_student", student, NoError,
                    CountRows(students,
                        WhereStudentId(students, student.student_id)))
    /\ UNCHANGED <<instructors, courses, registrations>>
    /\ commit
    /\ UNCHANGED process

\* delete_student whose DELETE has lost its WHERE clause
delete_student_all(student_id) ==
    /\ students' = EmptyBag
    /\ last' = Call("delete_student", student_id, NoError,
                    BagCardinality(students))
    /\ UNCHANGED <<instructors, courses, registrations>>
    /\ commit
    /\ UNCHANGED process

delete_student(student_id) ==
    /\ IF foreign_keys /\ StudentKeyTaken(student_id)
                       /\ StudentReferenced(student_id)
       THEN /\ last' = Call("delete_student", student_id, ForeignKeyFailed, -1)
            /\ UNCHANGED tables
       ELSE /\ students' = DeleteRows(students,
                                      WhereStudentId(students, student_id))
            /\ last' = Call("delete_student", student_id, NoError,
                           CountRows(students,
                                     WhereStudentId(students, student_id)))
            /\ UNCHANGED <<instructors, courses, registrations>>
    /\ commit
    /\ UNCHANGED process

(***************************************************************************)
(* Instructor methods.                                                     *)
(***************************************************************************)
add_instructor(instructor) ==
    /\ IF InstructorKeyTaken(instructor.instructor_id)
       THEN /\ last' = Call("add_instructor", instructor, UniqueInstructors, -1)
            /\ UNCHANGED tables
       ELSE /\ instructors' = InsertRow(instructors, instructor)
            /\ last' = Call("add_instructor", instructor, NoError, 1)
            /\ UNCHANGED <<students, courses, registrations>>
    /\ commit
    /\ UNCHANGED process

update_instructor(instructor) ==
    /\ instructors' = UpdateRows(instructors,
                      [r \in WhereInstructorId(instructors,
                                               instructor.instructor_id) |->
                          [r EXCEPT !.name = instructor.name,
                                    !.age = instructor.age,
                                    !.email = instructor.email]])
    /\ last' = Call("update_instructor", instructor, NoError,
                    CountRows(instructors,
                        WhereInstructorId(instructors,
                                          instructor.instructor_id)))
    /\ UNCHANGED <<students, courses, registrations>>
    /\ commit
    /\ UNCHANGED process

delete_instructor(instructor_id) ==
    /\ IF foreign_keys /\ InstructorKeyTaken(instructor_id)
                       /\ InstructorReferenced(instructor_id)
       THEN /\ last' = Call("delete_instructor", instructor_id,
                            ForeignKeyFailed, -1)
            /\ UNCHANGED tables
       ELSE /\ instructors' = DeleteRows(instructors,
                                  WhereInstructorId(instructors, instructor_id))
            /\ last' = Call("delete_instructor", instructor_id, NoError,
                           CountRows(instructors,
                               WhereInstructorId(instructors, instructor_id)))
            /\ UNCHANGED <<students, courses, registrations>>
    /\ commit
    /\ UNCHANGED process

(***************************************************************************)
(* Course methods.                                                         *)
(***************************************************************************)
\* instructor_id = course.instructor.instructor_id if course.instructor
\* else None; sqlite3 binds None as the SQL NULL
InstructorIdOf(course) ==
    IF course.instructor = None THEN NULL
    ELSE course.instructor.instructor_id

\* the row add_course binds
CourseRow(course) ==
    [course_id |-> course.course_id, course_name |-> course.course_name,
     instructor_id |-> InstructorIdOf(course)]

add_course(course) ==
    /\ IF CourseKeyTaken(course.course_id)
       THEN /\ last' = Call("add_course", course, UniqueCourses, -1)
            /\ UNCHANGED tables
       ELSE IF foreign_keys /\ InstructorIdOf(course) # NULL
                            /\ ~InstructorKeyTaken(InstructorIdOf(course))
       THEN /\ last' = Call("add_course", course, ForeignKeyFailed, -1)
            /\ UNCHANGED tables
       ELSE /\ courses' = InsertRow(courses, CourseRow(course))
            /\ last' = Call("add_course", course, NoError, 1)
            /\ UNCHANGED <<students, instructors, registrations>>
    /\ commit
    /\ UNCHANGED process

\* update_course whose UPDATE has lost its WHERE clause
update_course_all(course) ==
    /\ courses' = UpdateRows(courses,
                      [r \in DOMAIN courses |->
                          [r EXCEPT
                             !.course_name = course.course_name,
                             !.instructor_id = InstructorIdOf(course)]])
    /\ last' = Call("update_course", course, NoError,
                    BagCardinality(courses))
    /\ UNCHANGED <<students, instructors, registrations>>
    /\ commit
    /\ UNCHANGED process

\* update_course that keeps the stored instructor when the course has none
\* (SET instructor_id = COALESCE(?, instructor_id))
update_course_keep(course) ==
    /\ courses' = UpdateRows(courses,
                      [r \in WhereCourseId(courses, course.course_id) |->
                          [r EXCEPT
                             !.course_name = course.course_name,
                             !.instructor_id =
                                 IF InstructorIdOf(course) = NULL THEN @
                                 ELSE InstructorIdOf(course)]])
    /\ last' = Call("update_course", course, NoError,
                    CountRows(courses,
                        WhereCourseId(courses, course.course_id)))
    /\ UNCHANGED <<students, instructors, registrations>>
    /\ commit
    /\ UNCHANGED process

update_course(course) ==
    /\ IF foreign_keys /\ CourseKeyTaken(course.course_id)
                       /\ InstructorIdOf(course) # NULL
                       /\ ~InstructorKeyTaken(InstructorIdOf(course))
       THEN /\ last' = Call("update_course", course, ForeignKeyFailed, -1)
            /\ UNCHANGED tables
       ELSE /\ courses' = UpdateRows(courses,
                             [r \in WhereCourseId(courses, course.course_id) |->
                                 [r EXCEPT
                                    !.course_name = course.course_name,
                                    !.instructor_id = InstructorIdOf(course)]])
            /\ last' = Call("update_course", course, NoError,
                            CountRows(courses,
                                WhereCourseId(courses, course.course_id)))
            /\ UNCHANGED <<students, instructors, registrations>>
    /\ commit
    /\ UNCHANGED process

delete_course(course_id) ==
    /\ IF foreign_keys /\ CourseKeyTaken(course_id) /\ CourseReferenced(course_id)
       THEN /\ last' = Call("delete_course", course_id, ForeignKeyFailed, -1)
            /\ UNCHANGED tables
       ELSE /\ courses' = DeleteRows(courses, WhereCourseId(courses, course_id))
            /\ last' = Call("delete_course", course_id, NoError,
                           CountRows(courses, WhereCourseId(courses, course_id)))
            /\ UNCHANGED <<students, instructors, registrations>>
    /\ commit
    /\ UNCHANGED process

(***************************************************************************)
(* Registration methods.                                                   *)
(***************************************************************************)
Registration(student_id, course_id) ==
    [student_id |-> student_id, course_id |-> course_id]

\* register_student_in_course whose except clause swallows the IntegrityError
register_student_in_course_swallow(student_id, course_id) ==
    /\ LET reg == Registration(student_id, course_id) IN
       IF RegistrationTaken(student_id, course_id)
          \/ (foreign_keys /\ (~StudentKeyTaken(student_id)
                               \/ ~CourseKeyTaken(course_id)))
       THEN /\ last' = Call("register_student_in_course", reg, NoError, -1)
            /\ UNCHANGED tables
       ELSE /\ registrations' = InsertRow(registrations, reg)
            /\ last' = Call("register_student_in_course", reg, NoError, 1)
            /\ UNCHANGED <<students, instructors, courses>>
    /\ commit
    /\ UNCHANGED process

register_student_in_course(student_id, course_id) ==
    /\ LET reg == Registration(student_id, course_id) IN
       IF RegistrationTaken(student_id, course_id)
       THEN /\ last' = Call("register_student_in_course", reg,
                            UniqueRegistrations, -1)
            /\ UNCHANGED tables
       ELSE IF foreign_keys /\ (~StudentKeyTaken(student_id)
                                \/ ~CourseKeyTaken(course_id))
       THEN /\ last' = Call("register_student_in_course", reg,
                            ForeignKeyFailed, -1)
            /\ UNCHANGED tables
       ELSE /\ registrations' = InsertRow(registrations, reg)
            /\ last' = Call("register_student_in_course", reg, NoError, 1)
            /\ UNCHANGED <<students, instructors, courses>>
    /\ commit
    /\ UNCHANGED process

(***************************************************************************)
(* Reads.                                                                  *)
(***************************************************************************)
\* cursor.fetchone(): a matching row, or None when the SELECT is empty
FetchOne(rows) == IF rows = {} THEN None ELSE CHOOSE r \in rows : TRUE

\* get_student_by_id whose SELECT has no WHERE clause
get_student_by_id_any(student_id) ==
    FetchOne(SelectRows(students, DOMAIN students))

get_student_by_id(student_id) ==
    FetchOne(SelectRows(students, WhereStudentId(students, student_id)))

get_instructor_by_id(instructor_id) ==
    FetchOne(SelectRows(instructors, WhereInstructorId(instructors, instructor_id)))

get_course_by_id(course_id) ==
    FetchOne(SelectRows(courses, WhereCourseId(courses, course_id)))

(***************************************************************************)
(* The registrations shown to the user.                                    *)
(***************************************************************************)
\* ORDER BY compares TEXT values bytewise (the BINARY collation): the TEXT
\* values of the model in ascending order
TextOrder ==
    <<"Algebra", "Ann", "Art", "Bob", "C1", "C2", "I1", "S1", "S2">>

Rank(text) == CHOOSE i \in 1..Len(TextOrder) : TextOrder[i] = text

\* the query with JOIN courses c written without its ON condition: every
\* registration of a stored student is paired with every course
RegistrationJoin_cross ==
    LET matches ==
            {t \in (DOMAIN registrations) \X (DOMAIN students)
                       \X (DOMAIN courses) :
                t[1].student_id = t[2].student_id}
        row(t) == <<t[2].student_id, t[2].name,
                    t[3].course_id, t[3].course_name>>
    IN  [r \in {row(t) : t \in matches} |->
            BagCardinality(
                [t \in {m \in matches : row(m) = r} |->
                    registrations[t[1]] * students[t[2]] * courses[t[3]]])]

\* FROM registrations r JOIN students s ON ... JOIN courses c ON ...,
\* projected to (s.student_id, s.name, c.course_id, c.course_name): a
\* registration contributes a row for every student and course it matches
RegistrationJoin ==
    LET matches ==
            {t \in (DOMAIN registrations) \X (DOMAIN students)
                       \X (DOMAIN courses) :
                /\ t[1].student_id = t[2].student_id
                /\ t[1].course_id = t[3].course_id}
        row(t) == <<t[2].student_id, t[2].name,
                    t[3].course_id, t[3].course_name>>
    IN  [r \in {row(t) : t \in matches} |->
            BagCardinality(
                [t \in {m \in matches : row(m) = r} |->
                    registrations[t[1]] * students[t[2]] * courses[t[3]]])]

\* the rows of bag t, one item <<row, k>> for the k-th copy of a row
Items(t) == UNION {{<<r, k>> : k \in 1..t[r]} : r \in DOMAIN t}

\* row a does not come after row b under ORDER BY s.name, c.course_name
NamesBefore(a, b) ==
    \/ Rank(a[2]) < Rank(b[2])
    \/ a[2] = b[2] /\ Rank(a[4]) <= Rank(b[4])

\* row a does not come after row b under ORDER BY s.student_id, c.course_id
IdsBefore(a, b) ==
    \/ Rank(a[1]) < Rank(b[1])
    \/ a[1] = b[1] /\ Rank(a[3]) <= Rank(b[3])

\* ORDER BY s.name, c.course_name: the rows as a list ascending in
\* (name, course_name); rows equal in both come in the order the engine
\* produces them, which is a function of the stored data
RECURSIVE OrderByNames(_)
OrderByNames(items) ==
    IF items = {} THEN <<>>
    ELSE LET first == CHOOSE x \in items :
                          \A y \in items : NamesBefore(x[1], y[1])
         IN  <<first[1]>> \o OrderByNames(items \ {first})

RECURSIVE OrderByIds(_)
OrderByIds(items) ==
    IF items = {} THEN <<>>
    ELSE LET first == CHOOSE x \in items :
                          \A y \in items : IdsBefore(x[1], y[1])
         IN  <<first[1]>> \o OrderByIds(items \ {first})

\* the outcome of a query: nothing raised, and the list fetchall() returned
Returned(op, args, rows) ==
    [op |-> op, args |-> args, raised |-> NoError, rowcount |-> -1,
     returned |-> rows]

\* get_registrations_for_display whose query ends in
\* ORDER BY s.student_id, c.course_id
get_registrations_for_display_by_id ==
    /\ last' = Returned("get_registrations_for_display", <<>>,
                        OrderByIds(Items(RegistrationJoin)))
    /\ UNCHANGED tables
    /\ UNCHANGED <<committed, process>>

get_registrations_for_display ==
    /\ last' = Returned("get_registrations_for_display", <<>>,
                        OrderByNames(Items(RegistrationJoin)))
    /\ UNCHANGED tables
    /\ UNCHANGED <<committed, process>>

(***************************************************************************)
(* The callers may invoke any method with any argument; the store is kept  *)
(* to MaxRows rows by not inserting into a full one.                       *)
(***************************************************************************)
TotalRows ==
    BagCardinality(students) + BagCardinality(instructors)
        + BagCardinality(courses) + BagCardinality(registrations)

HasRoom == TotalRows < MaxRows

Next ==
    \/ \E s \in Student : HasRoom /\ add_student(s)
    \/ \E s \in Student : update_student(s)
    \/ \E id \in StudentIds : delete_student(id)
    \/ \E i \in Instructor : HasRoom /\ add_instructor(i)
    \/ \E i \in Instructor : update_instructor(i)
    \/ \E id \in InstructorIds : delete_instructor(id)
    \/ \E c \in Course : HasRoom /\ add_course(c)
    \/ \E c \in Course : update_course(c)
    \/ \E id \in CourseIds : delete_course(id)
    \/ \E sid \in StudentIds, cid \in CourseIds :
          HasRoom /\ register_student_in_course(sid, cid)

Spec == Init /\ [][Next]_vars

(***************************************************************************)
(* The registration screen: the application is started on a school.db that *)
(* already holds the students and the courses, and the callers register    *)
(* and rename while the registrations are displayed.                       *)
(***************************************************************************)
InitDisplay ==
    /\ \E s1, s2 \in Student :
          /\ s1.student_id = "S1" /\ s2.student_id = "S2"
          /\ students = SetToBag({s1, s2})
    /\ instructors = EmptyBag
    /\ \E c1, c2 \in Course :
          /\ c1.course_id = "C1" /\ c2.course_id = "C2"
          /\ c1.instructor = None /\ c2.instructor = None
          /\ courses = SetToBag({CourseRow(c1), CourseRow(c2)})
    /\ registrations = EmptyBag
    /\ last = Call("__init__", <<>>, NoError, -1)
    /\ Started

NextDisplay ==
    \/ \E sid \in StudentIds, cid \in CourseIds :
          register_student_in_course(sid, cid)
    \/ \E s \in Student : update_student(s)
    \/ \E c \in Course : c.instructor = None /\ update_course(c)
    \/ get_registrations_for_display

SpecDisplay == InitDisplay /\ [][NextDisplay]_vars

(***************************************************************************)
(* Properties.                                                             *)
(***************************************************************************)
\* copies of the registration pair (sid, cid) held by relation t
PairCount(t, sid, cid) ==
    CountRows(t, WhereStudentId(t, sid) \cap WhereCourseId(t, cid))

\* C1: delete_student(id) and delete_course(id), called when the row id
\* exists and at least one registration row references it, fail with the
\* foreign-key IntegrityError and leave every relation unchanged.
C1_DeleteReferencedRejected ==
    [][ /\ ( /\ last'.op = "delete_student"
             /\ StudentKeyTaken(last'.args)
             /\ StudentReferenced(last'.args) )
           => (last'.raised = ForeignKeyFailed /\ UNCHANGED tables)
        /\ ( /\ last'.op = "delete_course"
             /\ CourseKeyTaken(last'.args)
             /\ CourseReferenced(last'.args) )
           => (last'.raised = ForeignKeyFailed /\ UNCHANGED tables)
      ]_vars

\* C2: in every reachable state every registration row refers to a
\* student_id present in students and a course_id present in courses.
C2_NoDanglingRegistration ==
    \A r \in BagToSet(registrations) :
        StudentKeyTaken(r.student_id) /\ CourseKeyTaken(r.course_id)

\* C3: register_student_in_course(student_id, course_id) fails with the
\* foreign-key IntegrityError and inserts no registration row whenever
\* student_id is not in students or course_id is not in courses.
C3_RegisterUnknownRejected ==
    [][ ( /\ last'.op = "register_student_in_course"
          /\ \/ ~StudentKeyTaken(last'.args.student_id)
             \/ ~CourseKeyTaken(last'.args.course_id) )
        => (last'.raised = ForeignKeyFailed /\ UNCHANGED registrations)
      ]_vars

\* C4: add_student / add_instructor / add_course with a primary key already
\* present fails with the UNIQUE IntegrityError of its table; the stored row
\* is still the one get_by_id returns and no relation changes.
C4_DuplicateKeyRejected ==
    [][ /\ \A id \in StudentIds :
             ( /\ last'.op = "add_student"
               /\ last'.args.student_id = id
               /\ StudentKeyTaken(id) )
             => /\ last'.raised = UniqueStudents
                /\ UNCHANGED tables
                /\ get_student_by_id(id)' # None
                /\ get_student_by_id(id)' = get_student_by_id(id)
        /\ \A id \in InstructorIds :
             ( /\ last'.op = "add_instructor"
               /\ last'.args.instructor_id = id
               /\ InstructorKeyTaken(id) )
             => /\ last'.raised = UniqueInstructors
                /\ UNCHANGED tables
                /\ get_instructor_by_id(id)' # None
                /\ get_instructor_by_id(id)' = get_instructor_by_id(id)
        /\ \A id \in CourseIds :
             ( /\ last'.op = "add_course"
               /\ last'.args.course_id = id
               /\ CourseKeyTaken(id) )
             => /\ last'.raised = UniqueCourses
                /\ UNCHANGED tables
                /\ get_course_by_id(id)' # None
                /\ get_course_by_id(id)' = get_course_by_id(id)
      ]_vars

\* a rejected add_student whose student differs from the stored row
C4_Witness ==
    /\ last.op = "add_student"
    /\ last.raised = UniqueStudents
    /\ get_student_by_id(last.args.student_id) # None
    /\ get_student_by_id(last.args.student_id) # last.args

\* C5: register_student_in_course for a pair that is already registered
\* fails with the UNIQUE IntegrityError of registrations, and exactly one
\* row for the pair exists afterwards.
C5_DuplicateRegistrationRejected ==
    [][ ( /\ last'.op = "register_student_in_course"
          /\ RegistrationTaken(last'.args.student_id, last'.args.course_id) )
        => /\ last'.raised = UniqueRegistrations
           /\ PairCount(registrations', last'.args.student_id,
                        last'.args.course_id) = 1
      ]_vars

\* the second registration of a pair of an existing student and course
C5_Witness ==
    /\ last.op = "register_student_in_course"
    /\ last.raised = UniqueRegistrations
    /\ StudentKeyTaken(last.args.student_id)
    /\ CourseKeyTaken(last.args.course_id)
    /\ PairCount(registrations, last.args.student_id, last.args.course_id) = 1

\* the keys of the rows of each entity relation
StudentKeys == {r.student_id : r \in BagToSet(students)}
InstructorKeys == {r.instructor_id : r \in BagToSet(instructors)}
CourseKeys == {r.course_id : r \in BagToSet(courses)}

KeysUnique ==
    /\ \A id \in StudentIds :
          CountRows(students, WhereStudentId(students, id)) <= 1
    /\ \A id \in InstructorIds :
          CountRows(instructors, WhereInstructorId(instructors, id)) <= 1
    /\ \A id \in CourseIds :
          CountRows(courses, WhereCourseId(courses, id)) <= 1

\* C6: students, instructors and courses hold at most one row per primary
\* key in every reachable state, and an update neither adds a row nor
\* changes the key of one.
C6_PrimaryKeysUnique ==
    /\ []KeysUnique
    /\ [][ last'.op \in {"update_student", "update_instructor",
                         "update_course"}
           => /\ StudentKeys' = StudentKeys
              /\ InstructorKeys' = InstructorKeys
              /\ CourseKeys' = CourseKeys
              /\ BagCardinality(students') = BagCardinality(students)
              /\ BagCardinality(instructors') = BagCardinality(instructors)
              /\ BagCardinality(courses') = BagCardinality(courses)
         ]_vars

\* an update that rewrote one of two stored students
C6_Witness ==
    /\ last.op = "update_student"
    /\ last.rowcount = 1
    /\ get_student_by_id(last.args.student_id) = last.args
    /\ StudentKeys = StudentIds

\* C7: registrations holds at most one row per (student_id, course_id) pair
\* in every reachable state.
C7_RegistrationPairsUnique ==
    \A sid \in StudentIds, cid \in CourseIds :
        PairCount(registrations, sid, cid) <= 1

\* a student added while a registration row of an earlier student with its
\* id is still stored
C7_Witness ==
    /\ last.op = "add_student"
    /\ last.rowcount = 1
    /\ PairCount(registrations, last.args.student_id, "C1") = 1
    /\ CourseKeyTaken("C1")

\* C8: every integrity violation is reported as its own kind of error: a
\* duplicate-key insert as the UNIQUE error of its table, a duplicate
\* registration as the UNIQUE error of registrations, and a foreign-key
\* violation (register with a missing student or course, delete of a
\* referenced row) as the foreign-key error; none is reported as another
\* or not at all.
DuplicateKeyErrors == {UniqueStudents, UniqueInstructors, UniqueCourses}

C8_ErrorKindsDistinct ==
    [][ /\ ( \/ /\ last'.op = "add_student"
                /\ StudentKeyTaken(last'.args.student_id)
             \/ /\ last'.op = "add_instructor"
                /\ InstructorKeyTaken(last'.args.instructor_id)
             \/ /\ last'.op = "add_course"
                /\ CourseKeyTaken(last'.args.course_id) )
           => last'.raised \in DuplicateKeyErrors
        /\ ( /\ last'.op = "register_student_in_course"
             /\ RegistrationTaken(last'.args.student_id,
                                  last'.args.course_id)
             /\ StudentKeyTaken(last'.args.student_id)
             /\ CourseKeyTaken(last'.args.course_id) )
           => last'.raised = UniqueRegistrations
        /\ ( \/ /\ last'.op = "register_student_in_course"
                /\ ~RegistrationTaken(last'.args.student_id,
                                      last'.args.course_id)
                /\ \/ ~StudentKeyTaken(last'.args.student_id)
                   \/ ~CourseKeyTaken(last'.args.course_id)
             \/ /\ last'.op = "delete_student"
                /\ StudentKeyTaken(last'.args)
                /\ StudentReferenced(last'.args)
             \/ /\ last'.op = "delete_course"
                /\ CourseKeyTaken(last'.args)
                /\ CourseReferenced(last'.args) )
           => last'.raised = ForeignKeyFailed
      ]_vars

\* C9: update_student / update_instructor / update_course with an
\* identifier that is not in its relation raises nothing and leaves every
\* relation as it was.
C9_UpdateAbsentIsNoOp ==
    [][ ( \/ /\ last'.op = "update_student"
             /\ ~StudentKeyTaken(last'.args.student_id)
          \/ /\ last'.op = "update_instructor"
             /\ ~InstructorKeyTaken(last'.args.instructor_id)
          \/ /\ last'.op = "update_course"
             /\ ~CourseKeyTaken(last'.args.course_id) )
        => (last'.raised = NoError /\ UNCHANGED tables)
      ]_vars

\* an update of a student that is not stored, beside one that is
C9_Witness ==
    /\ last.op = "update_student"
    /\ last.raised = NoError
    /\ last.rowcount = 0
    /\ ~StudentKeyTaken(last.args.student_id)
    /\ students # EmptyBag

\* relation t1 is relation t0 without the rows gone
RemovedExactly(t0, t1, gone) ==
    \A r \in DOMAIN t0 \cup DOMAIN t1 :
        CopiesIn(r, t1) = IF r \in gone THEN 0 ELSE CopiesIn(r, t0)

\* C10: delete_student / delete_instructor / delete_course with an
\* identifier that is not in its relation raises nothing and leaves every
\* relation unchanged; with an existing identifier that no row references
\* it raises nothing and removes exactly the row of that identifier.
C10_DeleteFrame ==
    [][ /\ \A id \in StudentIds :
             (last'.op = "delete_student" /\ last'.args = id)
             => /\ ~StudentKeyTaken(id)
                   => (last'.raised = NoError /\ UNCHANGED tables)
                /\ (StudentKeyTaken(id) /\ ~StudentReferenced(id))
                   => /\ last'.raised = NoError
                      /\ RemovedExactly(students, students',
                                        WhereStudentId(students, id))
                      /\ UNCHANGED <<instructors, courses, registrations>>
        /\ \A id \in InstructorIds :
             (last'.op = "delete_instructor" /\ last'.args = id)
             => /\ ~InstructorKeyTaken(id)
                   => (last'.raised = NoError /\ UNCHANGED tables)
                /\ (InstructorKeyTaken(id) /\ ~InstructorReferenced(id))
                   => /\ last'.raised = NoError
                      /\ RemovedExactly(instructors, instructors',
                                        WhereInstructorId(instructors, id))
                      /\ UNCHANGED <<students, courses, registrations>>
        /\ \A id \in CourseIds :
             (last'.op = "delete_course" /\ last'.args = id)
             => /\ ~CourseKeyTaken(id)
                   => (last'.raised = NoError /\ UNCHANGED tables)
                /\ (CourseKeyTaken(id) /\ ~CourseReferenced(id))
                   => /\ last'.raised = NoError
                      /\ RemovedExactly(courses, courses',
                                        WhereCourseId(courses, id))
                      /\ UNCHANGED <<students, instructors, registrations>>
      ]_vars

\* a delete that removed the one row of its student and left the other
\* student stored
C10_Witness ==
    /\ last.op = "delete_student"
    /\ last.raised = NoError
    /\ last.rowcount = 1
    /\ ~StudentReferenced(last.args)
    /\ BagCardinality(students) = 1

(***************************************************************************)
(* Reading back what was written.                                          *)
(***************************************************************************)
\* the step is a successful write (add, or update of a stored key) of key id
WroteStudent(id) ==
    /\ last'.op \in {"add_student", "update_student"}
    /\ last'.args.student_id = id
    /\ IF last'.op = "add_student" THEN last'.raised = NoError
       ELSE get_student_by_id(id) # None

WroteInstructor(id) ==
    /\ last'.op \in {"add_instructor", "update_instructor"}
    /\ last'.args.instructor_id = id
    /\ IF last'.op = "add_instructor" THEN last'.raised = NoError
       ELSE get_instructor_by_id(id) # None

WroteCourse(id) ==
    /\ last'.op \in {"add_course", "update_course"}
    /\ last'.args.course_id = id
    /\ IF last'.op = "add_course" THEN last'.raised = NoError
       ELSE get_course_by_id(id) # None

\* the step deleted key id
Deleted(op, id) == last'.op = op /\ last'.args = id /\ last'.raised = NoError

\* C11: get_<entity>_by_id(id) returns the row most recently written for id
\* by add_<entity> or update_<entity>: it is None before any write, becomes
\* the written row (id, name, age, email) at each successful write of id,
\* None again at a delete of id, and no other call changes it (a call that
\* leaves the table as it is leaves every read of it as it is).
C11_GetByIdReturnsLastWritten ==
    /\ [](last.op = "__init__" =>
            /\ \A id \in StudentIds : get_student_by_id(id) = None
            /\ \A id \in InstructorIds : get_instructor_by_id(id) = None
            /\ \A id \in CourseIds : get_course_by_id(id) = None)
    /\ [][/\ \A id \in StudentIds :
                IF WroteStudent(id) THEN get_student_by_id(id)' = last'.args
                ELSE IF Deleted("delete_student", id)
                THEN get_student_by_id(id)' = None
                ELSE \/ UNCHANGED students
                     \/ get_student_by_id(id)' = get_student_by_id(id)
          /\ \A id \in InstructorIds :
                IF WroteInstructor(id)
                THEN get_instructor_by_id(id)' = last'.args
                ELSE IF Deleted("delete_instructor", id)
                THEN get_instructor_by_id(id)' = None
                ELSE \/ UNCHANGED instructors
                     \/ get_instructor_by_id(id)' = get_instructor_by_id(id)
          /\ \A id \in CourseIds :
                IF WroteCourse(id)
                THEN get_course_by_id(id)' =
                         [course_id |-> id,
                          course_name |-> last'.args.course_name,
                          instructor_id |->
                              IF last'.args.instructor = None THEN NULL
                              ELSE last'.args.instructor.instructor_id]
                ELSE IF Deleted("delete_course", id)
                THEN get_course_by_id(id)' = None
                ELSE \/ UNCHANGED courses
                     \/ get_course_by_id(id)' = get_course_by_id(id)]_vars

\* a student was deleted and reads back as None while another is still read
C11_Witness ==
    /\ last.op = "delete_student" /\ last.rowcount = 1
    /\ get_student_by_id(last.args) = None
    /\ \E id \in StudentIds : get_student_by_id(id) # None

(***************************************************************************)
(* Update of a stored key.                                                 *)
(***************************************************************************)
\* t1 is t0 with the rows hit replaced by as many copies of the one row new,
\* every other row keeping its number of copies
ReplacedExactly(t0, t1, hit, new) ==
    /\ \A r \in (DOMAIN t0 \cup DOMAIN t1) \ (hit \cup {new}) :
          CopiesIn(r, t1) = CopiesIn(r, t0)
    /\ \A r \in hit \ {new} : CopiesIn(r, t1) = 0
    /\ CopiesIn(new, t1) =
          BagCardinality([r \in hit |-> CopiesIn(r, t0)])
              + (IF new \in hit THEN 0 ELSE CopiesIn(new, t0))

\* C12: update_<entity>(entity) for a stored key raises nothing, rewrites the
\* row of that key to the entity's values (name, age, email; for a course
\* course_name and the instructor's id) under the same key, and leaves every
\* other row of the table, the other tables and the registrations unchanged.
C12_UpdateOverwrites ==
    [][/\ (last'.op = "update_student"
           /\ StudentKeyTaken(last'.args.student_id)) =>
             /\ last'.raised = NoError
             /\ ReplacedExactly(students, students',
                    {r \in DOMAIN students :
                        r.student_id = last'.args.student_id},
                    [student_id |-> last'.args.student_id,
                     name |-> last'.args.name, age |-> last'.args.age,
                     email |-> last'.args.email])
             /\ UNCHANGED <<instructors, courses, registrations>>
       /\ (last'.op = "update_instructor"
           /\ InstructorKeyTaken(last'.args.instructor_id)) =>
             /\ last'.raised = NoError
             /\ ReplacedExactly(instructors, instructors',
                    {r \in DOMAIN instructors :
                        r.instructor_id = last'.args.instructor_id},
                    [instructor_id |-> last'.args.instructor_id,
                     name |-> last'.args.name, age |-> last'.args.age,
                     email |-> last'.args.email])
             /\ UNCHANGED <<students, courses, registrations>>
       /\ (last'.op = "update_course"
           /\ CourseKeyTaken(last'.args.course_id)) =>
             /\ last'.raised = NoError
             /\ ReplacedExactly(courses, courses',
                    {r \in DOMAIN courses :
                        r.course_id = last'.args.course_id},
                    [course_id |-> last'.args.course_id,
                     course_name |-> last'.args.course_name,
                     instructor_id |->
                         IF last'.args.instructor = None THEN NULL
                         ELSE last'.args.instructor.instructor_id])
             /\ UNCHANGED <<students, instructors, registrations>>]_vars

\* a course was updated while another course, with another name, and a
\* registration are stored
C12_Witness ==
    /\ last.op = "update_course" /\ last.rowcount = 1
    /\ \E r \in DOMAIN courses :
          /\ r.course_id # last.args.course_id
          /\ r.course_name # last.args.course_name
    /\ registrations # EmptyBag

(***************************************************************************)
(* The instructor column of a course.                                      *)
(***************************************************************************)
\* the instructor_id values stored under course key id
StoredInstructorIds(t, id) ==
    {r.instructor_id : r \in {x \in DOMAIN t : x.course_id = id}}

\* C13: after a successful add_course(course), and after update_course(course)
\* of a stored key, the row of course.course_id holds NULL as instructor_id
\* when course.instructor is None and the instructor's instructor_id
\* otherwise; so an update_course without instructor clears a stored
\* instructor_id.
C13_InstructorIdStored ==
    [][\A id \in CourseIds :
         ((\/ last'.op = "add_course" /\ last'.raised = NoError
           \/ last'.op = "update_course" /\ CourseKeyTaken(id))
          /\ last'.args.course_id = id) =>
            /\ last'.args.instructor = None =>
                  StoredInstructorIds(courses', id) = {NULL}
            /\ last'.args.instructor # None =>
                  StoredInstructorIds(courses', id) =
                      {last'.args.instructor.instructor_id}
            /\ (last'.op = "update_course"
                /\ last'.args.instructor = None
                /\ StoredInstructorIds(courses, id) # {NULL}) =>
                  \A r \in DOMAIN courses' :
                      r.course_id = id => r.instructor_id = NULL]_vars

\* a course was updated without instructor and stores NULL, while another
\* course stores an instructor_id
C13_Witness ==
    /\ last.op = "update_course" /\ last.rowcount = 1
    /\ last.args.instructor = None
    /\ StoredInstructorIds(courses, last.args.course_id) = {NULL}
    /\ \E r \in DOMAIN courses : r.instructor_id # NULL

(***************************************************************************)
(* The reference from courses to instructors.                              *)
(***************************************************************************)
\* C14: in every reachable state each course row's instructor_id is NULL or
\* the key of a stored instructor; add_course and update_course naming an
\* instructor that is not stored, and delete_instructor of an instructor a
\* course is assigned to, raise an IntegrityError and change nothing.
C14_CourseInstructorExists ==
    /\ [](\A r \in DOMAIN courses :
             r.instructor_id = NULL \/ InstructorKeyTaken(r.instructor_id))
    /\ [][/\ (/\ last'.op \in {"add_course", "update_course"}
              /\ last'.args.instructor # None
              /\ ~InstructorKeyTaken(last'.args.instructor.instructor_id)
              /\ last'.op = "update_course" =>
                     CourseKeyTaken(last'.args.course_id)) =>
                /\ last'.raised \in IntegrityError
                /\ UNCHANGED tables
          /\ (/\ last'.op = "delete_instructor"
              /\ InstructorKeyTaken(last'.args)
              /\ InstructorReferenced(last'.args)) =>
                /\ last'.raised \in IntegrityError
                /\ UNCHANGED tables]_vars

MaxEmailLen == 3

\* Python values handed over as age: int, bool, float, str and None
PyInt(n) == [type |-> "int", value |-> n]
AgeArguments ==
    {PyInt(-1), PyInt(0), PyInt(20),
     [type |-> "bool", value |-> 1],
     [type |-> "float", value |-> 20], [type |-> "float", value |-> -1],
     [type |-> "str", value |-> 20],
     [type |-> "NoneType", value |-> 0]}

\* strings handed over as email, as sequences of characters
EmailChars == {"a", "@", "."}
EmailArguments == UNION {[1..n -> EmailChars] : n \in 0..MaxEmailLen}

PersonIds == {"S1", "S2", "I1", "I2"}

\* isinstance(age, int): bool is a subclass of int
IsInstanceInt(age) == age.type \in {"int", "bool"}

\* ch in text
Contains(text, ch) == \E i \in DOMAIN text : text[i] = ch

AgeError == "ValueError: Age must be a non-negative integer."
EmailError == "ValueError: Email address is not valid."
ValueError == {AgeError, EmailError}

\* the outcome of a constructor: the exception it raised, or the object
Raise(error) == [raised |-> error, object |-> None]
Object(fields) == [raised |-> NoError, object |-> fields]

\* Person.__init__ that tests only the sign of an int age
Person_init_sign(name, age, email) ==
    IF IsInstanceInt(age) /\ age.value < 0 THEN Raise(AgeError)
    ELSE IF ~Contains(email, "@") \/ ~Contains(email, ".")
    THEN Raise(EmailError)
    ELSE Object([name |-> name, age |-> age, _email |-> email])

\* Person.__init__ that rejects an email only when it lacks both characters
Person_init_both(name, age, email) ==
    IF ~IsInstanceInt(age) \/ age.value < 0 THEN Raise(AgeError)
    ELSE IF ~Contains(email, "@") /\ ~Contains(email, ".")
    THEN Raise(EmailError)
    ELSE Object([name |-> name, age |-> age, _email |-> email])

Person_init(name, age, email) ==
    IF ~IsInstanceInt(age) \/ age.value < 0 THEN Raise(AgeError)
    ELSE IF ~Contains(email, "@") \/ ~Contains(email, ".")
    THEN Raise(EmailError)
    ELSE Object([name |-> name, age |-> age, _email |-> email])

Student_init(name, age, email, student_id) ==
    LET person == Person_init(name, age, email) IN
    IF person.raised # NoError THEN person
    ELSE Object([name |-> person.object.name, age |-> person.object.age,
                 _email |-> person.object._email, student_id |-> student_id,
                 registered_courses |-> <<>>])

Instructor_init(name, age, email, instructor_id) ==
    LET person == Person_init(name, age, email) IN
    IF person.raised # NoError THEN person
    ELSE Object([name |-> person.object.name, age |-> person.object.age,
                 _email |-> person.object._email,
                 instructor_id |-> instructor_id,
                 assigned_courses |-> <<>>])

\* Course.__init__ validates nothing
Course_init(course_id, course_name, instructor) ==
    [course_id |-> course_id, course_name |-> course_name,
     instructor |-> instructor, enrolled_students |-> <<>>]

\* course in courses (a list)
InList(course, list) == \E i \in DOMAIN list : list[i] = course

Student_register_course(self, course) ==
    IF ~InList(course, self.registered_courses)
    THEN [self EXCEPT !.registered_courses = Append(@, course)]
    ELSE self

Instructor_assign_course(self, course) ==
    IF ~InList(course, self.assigned_courses)
    THEN [self EXCEPT !.assigned_courses = Append(@, course)]
    ELSE self

\* Course.add_student without the membership test
Course_add_student_again(self, student) ==
    [self EXCEPT !.enrolled_students = Append(@, student)]

\* student not in self.enrolled_students: the classes define no __eq__, so
\* the test is by identity; the objects of the model differ in value
Course_add_student(self, student) ==
    IF ~InList(student, self.enrolled_students)
    THEN [self EXCEPT !.enrolled_students = Append(@, student)]
    ELSE self

\* [course.course_id for course in courses]
CourseIdsOf(list) == [i \in DOMAIN list |-> list[i].course_id]

\* Student.to_dict that exports the age as text (str(self.age))
Student_to_dict_text(self) ==
    [name |-> self.name, age |-> [type |-> "str", value |-> self.age.value],
     email |-> self._email, student_id |-> self.student_id,
     registered_courses |-> CourseIdsOf(self.registered_courses)]

Student_to_dict(self) ==
    [name |-> self.name, age |-> self.age, email |-> self._email,
     student_id |-> self.student_id,
     registered_courses |-> CourseIdsOf(self.registered_courses)]

Student_from_dict(data) ==
    Student_init(data.name, data.age, data.email, data.student_id)

Instructor_to_dict(self) ==
    [name |-> self.name, age |-> self.age, email |-> self._email,
     instructor_id |-> self.instructor_id,
     assigned_courses |-> CourseIdsOf(self.assigned_courses)]

Instructor_from_dict(data) ==
    Instructor_init(data.name, data.age, data.email, data.instructor_id)

\* next((inst for inst in instructors if ...), None): the first match
FirstMatch(collection, instructor_id) ==
    LET hits == {i \in DOMAIN collection :
                    collection[i].instructor_id = instructor_id}
    IN  IF hits = {} THEN None
        ELSE collection[CHOOSE i \in hits : \A j \in hits : i <= j]

\* Course.from_dict whose next() has no default: StopIteration without match
Course_from_dict_strict(data, collection) ==
    IF FirstMatch(collection, data.instructor_id) = None
    THEN Raise("StopIteration")
    ELSE Object(Course_init(data.course_id, data.course_name,
                            FirstMatch(collection, data.instructor_id)))

Course_from_dict(data, collection) ==
    Object(Course_init(data.course_id, data.course_name,
                       FirstMatch(collection, data.instructor_id)))

(***************************************************************************)
(* The domain model applied to every argument of the bounded sets.         *)
(***************************************************************************)
\* the outcome of a call of the domain model
Outcome(op, args, result) ==
    [op |-> op, args |-> args, raised |-> result.raised, rowcount |-> -1,
     returned |-> result.object]

\* the courses a student registers for and an instructor is assigned to
CourseObjects == {Course_init(id, "Algebra", None) : id \in CourseIds}

\* the students a course enrols
StudentObjects ==
    {Student_init("Ann", PyInt(20), <<"a", "@", ".">>, id).object :
        id \in StudentIds}

\* the instructors a course dictionary is resolved against
InstructorObjects ==
    {Instructor_init(name, PyInt(20), <<"a", "@", ".">>, id).object :
        name \in Names, id \in {"I1", "I2"}}
MaxInstructors == 2
InstructorLists ==
    UNION {[1..n -> InstructorObjects] : n \in 0..MaxInstructors}

\* the dictionaries Course.from_dict is given; a None instructor_id is
\* written NULL, the value sqlite3 exchanges it for
CourseDicts ==
    [course_id : CourseIds, course_name : {"Algebra"},
     instructor_id : {"I1", "I2", "I3", NULL},
     enrolled_students : {<<>>}]

\* the arguments of the calls, before the call
PersonArguments ==
    [name : Names, age : AgeArguments, email : EmailArguments,
     id : PersonIds]
FromDictArguments == [data : CourseDicts, instructors : InstructorLists]

InitDomain ==
    /\ students = EmptyBag /\ instructors = EmptyBag
    /\ courses = EmptyBag /\ registrations = EmptyBag
    /\ \E args \in PersonArguments \cup FromDictArguments :
          last = Call("arguments", args, NoError, -1)
    /\ Started

NextDomain ==
    \/ /\ last.op = "arguments" /\ last.args \in PersonArguments
       /\ last' = Outcome("Person", last.args,
                      Person_init(last.args.name, last.args.age,
                                  last.args.email))
       /\ UNCHANGED <<tables, committed, process>>
    \/ /\ last.op = "arguments" /\ last.args \in PersonArguments
       /\ last' = Outcome("Student", last.args,
                      Student_init(last.args.name, last.args.age,
                                   last.args.email, last.args.id))
       /\ UNCHANGED <<tables, committed, process>>
    \/ /\ last.op = "arguments" /\ last.args \in PersonArguments
       /\ last' = Outcome("Instructor", last.args,
                      Instructor_init(last.args.name, last.args.age,
                                      last.args.email, last.args.id))
       /\ UNCHANGED <<tables, committed, process>>
    \/ \E course \in CourseObjects :
          /\ last.op \in {"Student", "register_course"}
          /\ last.raised = NoError
          /\ last' = Outcome("register_course", course,
                         Object(Student_register_course(last.returned,
                                                        course)))
          /\ UNCHANGED <<tables, committed, process>>
    \/ \E course \in CourseObjects :
          /\ last.op \in {"Instructor", "assign_course"}
          /\ last.raised = NoError
          /\ last' = Outcome("assign_course", course,
                         Object(Instructor_assign_course(last.returned,
                                                         course)))
          /\ UNCHANGED <<tables, committed, process>>
    \/ /\ last.op = "arguments" /\ last.args \in FromDictArguments
       /\ last' = Outcome("Course.from_dict", last.args,
                      Course_from_dict(last.args.data,
                                       last.args.instructors))
       /\ UNCHANGED <<tables, committed, process>>
    \/ \E student \in StudentObjects :
          /\ last.op \in {"Course.from_dict", "Course.add_student"}
          /\ last.raised = NoError
          /\ last' = Outcome("Course.add_student", student,
                         Object(Course_add_student(last.returned, student)))
          /\ UNCHANGED <<tables, committed, process>>

SpecDomain == InitDomain /\ [][NextDomain]_vars

(***************************************************************************)
(* Validation.                                                             *)
(***************************************************************************)
Constructors == {"Person", "Student", "Instructor"}

\* C16: constructing a Person, Student or Instructor with an age that is
\* negative or not an integer (a float, a string, None) raises a ValueError
\* and yields no object, whatever the name, the email and the identifier.
\* A bool counts as an integer, as it does in Python.
C16_BadAgeRejected ==
    (/\ last.op \in Constructors
     /\ \/ last.args.age.type \notin {"int", "bool"}
        \/ last.args.age.value < 0) =>
        /\ last.raised \in ValueError
        /\ last.returned = None

\* a Student given a float age and an email with both characters was refused
C16_Witness ==
    /\ last.op = "Student"
    /\ last.args.age = [type |-> "float", value |-> 20]
    /\ last.args.email = <<"a", "@", ".">>
    /\ last.raised = AgeError

\* the text has an occurrence of the character
Occurs(ch, text) == \E i \in 1..Len(text) : text[i] = ch

\* C17: constructing with an email that lacks '@' or lacks '.' raises a
\* ValueError and yields no object; with an email that has both, anywhere
\* and in any order, and a non-negative integer age, it succeeds and the
\* object carries that email.
C17_EmailValidated ==
    last.op \in Constructors =>
        /\ (~Occurs("@", last.args.email) \/ ~Occurs(".", last.args.email)) =>
              /\ last.raised \in ValueError
              /\ last.returned = None
        /\ (/\ Occurs("@", last.args.email) /\ Occurs(".", last.args.email)
            /\ last.args.age.type \in {"int", "bool"}
            /\ last.args.age.value >= 0) =>
              /\ last.raised = NoError
              /\ last.returned # None
              /\ last.returned._email = last.args.email

\* an Instructor whose email has the '.' before the '@' was constructed
C17_Witness ==
    /\ last.op = "Instructor"
    /\ last.args.email = <<".", "@">>
    /\ last.raised = NoError
    /\ last.returned._email = <<".", "@">>

(***************************************************************************)
(* Export and reconstruction.                                              *)
(***************************************************************************)
\* C18: for every name, every non-negative integer age, every email with
\* '@' and '.' and every identifier, constructing a Student or an Instructor
\* succeeds; from_dict(to_dict(x)) succeeds and has the name, age, email and
\* identifier of x; and for x as constructed
\* to_dict(from_dict(to_dict(x))) = to_dict(x).
C18_RoundTrip ==
    /\ (/\ last.op \in {"Student", "Instructor"}
        /\ last.args.age.type \in {"int", "bool"}
        /\ last.args.age.value >= 0
        /\ Occurs("@", last.args.email) /\ Occurs(".", last.args.email)) =>
          /\ last.raised = NoError
          /\ last.returned.name = last.args.name
          /\ last.returned.age = last.args.age
          /\ last.returned._email = last.args.email
    /\ (last.op \in {"Student", "register_course"}
        /\ last.raised = NoError) =>
          LET x == last.returned
              y == Student_from_dict(Student_to_dict(x))
          IN  /\ y.raised = NoError
              /\ y.object.name = x.name /\ y.object.age = x.age
              /\ y.object._email = x._email
              /\ y.object.student_id = x.student_id
              /\ last.op = "Student" =>
                    /\ x.student_id = last.args.id
                    /\ Student_to_dict(y.object) = Student_to_dict(x)
    /\ (last.op \in {"Instructor", "assign_course"}
        /\ last.raised = NoError) =>
          LET x == last.returned
              y == Instructor_from_dict(Instructor_to_dict(x))
          IN  /\ y.raised = NoError
              /\ y.object.name = x.name /\ y.object.age = x.age
              /\ y.object._email = x._email
              /\ y.object.instructor_id = x.instructor_id
              /\ last.op = "Instructor" =>
                    /\ x.instructor_id = last.args.id
                    /\ Instructor_to_dict(y.object) = Instructor_to_dict(x)

\* a Student was constructed and its dictionary has the four values given
C18_Witness ==
    /\ last.op = "Student" /\ last.raised = NoError
    /\ last.args.age = PyInt(20)
    /\ Student_to_dict(last.returned).name = last.args.name
    /\ Student_to_dict(last.returned).email = <<"a", "@", ".">>
    /\ Student_to_dict(last.returned).student_id = "S2"
    /\ Student_to_dict(last.returned).registered_courses = <<>>

\* C19: Course.from_dict(data, instructors) never raises; it returns the
\* course of data's course_id and course_name, linked to an instructor of
\* the collection whose instructor_id equals data's instructor_id when there
\* is one, and with no instructor (None) when there is none: a None
\* instructor_id, an identifier nobody has, an empty collection.
C19_FromDictLinksInstructor ==
    last.op = "Course.from_dict" =>
        LET data == last.args.data
            collection == last.args.instructors
            matching == {i \in 1..Len(collection) :
                            collection[i].instructor_id = data.instructor_id}
        IN  /\ last.raised = NoError
            /\ last.returned.course_id = data.course_id
            /\ last.returned.course_name = data.course_name
            /\ matching # {} =>
                  \E i \in matching : last.returned.instructor = collection[i]
            /\ matching = {} => last.returned.instructor = None

\* a course was linked to the second instructor of the collection, the
\* first having another identifier
C19_Witness ==
    /\ last.op = "Course.from_dict"
    /\ Len(last.args.instructors) = 2
    /\ last.args.instructors[1].instructor_id # last.args.data.instructor_id
    /\ last.args.instructors[2].instructor_id = last.args.data.instructor_id
    /\ last.returned.instructor = last.args.instructors[2]

(***************************************************************************)
(* The add and edit forms of the two front ends (src/pyqt_app.py,          *)
(* src/tkinter_app.py): the text of the fields is converted, the object is *)
(* constructed, and the object is handed to the DatabaseManager.  A form   *)
(* that reaches the DatabaseManager leaves that call in last; a form that  *)
(* stops before leaves itself there, with the error it showed.             *)
(***************************************************************************)
\* the texts typed into an age field
AgeTexts == {<<>>, <<"2">>, <<"2", "2">>, <<"-", "2">>, <<"x">>}
EmailTexts == {<<>>, <<"a", "@">>, <<"a", "@", ".">>}
NameTexts == {"Ann"}

DigitChars == <<"0", "1", "2", "3", "4", "5", "6", "7", "8", "9">>
IsDigit(ch) == \E i \in DOMAIN DigitChars : DigitChars[i] = ch
DigitValue(ch) == (CHOOSE i \in DOMAIN DigitChars : DigitChars[i] = ch) - 1

\* the number a sequence of digits denotes
RECURSIVE Numeral(_)
Numeral(digits) ==
    IF digits = <<>> THEN 0
    ELSE 10 * Numeral(SubSeq(digits, 1, Len(digits) - 1))
            + DigitValue(digits[Len(digits)])

IntError == "ValueError: invalid literal for int() with base 10"
InputError == "Input Error: All fields are required."

\* int(text): an optional sign and at least one digit, ValueError otherwise
int(text) ==
    LET negative == text # <<>> /\ text[1] = "-"
        digits == IF negative THEN Tail(text) ELSE text
    IN  IF digits = <<>> \/ \E i \in DOMAIN digits : ~IsDigit(digits[i])
        THEN Raise(IntError)
        ELSE Object(PyInt(IF negative THEN 0 - Numeral(digits)
                          ELSE Numeral(digits)))

\* all([name, age, email, id]): no field is the empty string
AllFilled(fields) ==
    /\ fields.name # "" /\ fields.id # ""
    /\ fields.age # <<>> /\ fields.email # <<>>

\* Student(name, int(age), email, student_id) on the text of the fields
StudentOfFields(fields) ==
    LET age == int(fields.age) IN
    IF age.raised # NoError THEN age
    ELSE Student_init(fields.name, age.object, fields.email, fields.id)

InstructorOfFields(fields) ==
    LET age == int(fields.age) IN
    IF age.raised # NoError THEN age
    ELSE Instructor_init(fields.name, age.object, fields.email, fields.id)

\* the values the DatabaseManager binds from a Student object
StudentParameters(student) ==
    [student_id |-> student.student_id, name |-> student.name,
     age |-> student.age, email |-> student._email]

InstructorParameters(instructor) ==
    [instructor_id |-> instructor.instructor_id, name |-> instructor.name,
     age |-> instructor.age, email |-> instructor._email]

FormFields ==
    [name : NameTexts, age : AgeTexts, email : EmailTexts, id : StudentIds]
InstructorFormFields ==
    [name : NameTexts, age : AgeTexts, email : EmailTexts,
     id : InstructorIds]

\* the form stopped and showed error, without calling the DatabaseManager
Refused(form, fields, error) ==
    /\ last' = Call(form, fields, error, -1)
    /\ UNCHANGED tables
    /\ UNCHANGED <<committed, process>>

\* SchoolManagementApp.add_student that inserts the fields as they are
\* converted, without constructing the Student
pyqt_add_student_unvalidated(fields) ==
    IF ~AllFilled(fields) THEN Refused("pyqt.add_student", fields, InputError)
    ELSE IF int(fields.age).raised # NoError
    THEN Refused("pyqt.add_student", fields, IntError)
    ELSE add_student([student_id |-> fields.id, name |-> fields.name,
                      age |-> int(fields.age).object,
                      email |-> fields.email])

pyqt_add_student(fields) ==
    LET made == StudentOfFields(fields) IN
    IF ~AllFilled(fields) THEN Refused("pyqt.add_student", fields, InputError)
    ELSE IF made.raised # NoError
    THEN Refused("pyqt.add_student", fields, made.raised)
    ELSE add_student(StudentParameters(made.object))

pyqt_add_instructor(fields) ==
    LET made == InstructorOfFields(fields) IN
    IF ~AllFilled(fields) THEN Refused("pyqt.add_instructor", fields, InputError)
    ELSE IF made.raised # NoError
    THEN Refused("pyqt.add_instructor", fields, made.raised)
    ELSE add_instructor(InstructorParameters(made.object))

\* edit_record on a selected student: the dialog is accepted with fields
pyqt_edit_student(fields) ==
    LET made == StudentOfFields(fields) IN
    /\ StudentKeyTaken(fields.id)
    /\ IF made.raised # NoError
       THEN Refused("pyqt.edit_record", fields, made.raised)
       ELSE update_student(StudentParameters(made.object))

pyqt_edit_instructor(fields) ==
    LET made == InstructorOfFields(fields) IN
    /\ InstructorKeyTaken(fields.id)
    /\ IF made.raised # NoError
       THEN Refused("pyqt.edit_record", fields, made.raised)
       ELSE update_instructor(InstructorParameters(made.object))

tk_add_student(fields) ==
    LET made == StudentOfFields(fields) IN
    IF ~AllFilled(fields) THEN Refused("tk.add_student", fields, InputError)
    ELSE IF made.raised # NoError
    THEN Refused("tk.add_student", fields, made.raised)
    ELSE add_student(StudentParameters(made.object))

tk_add_instructor(fields) ==
    LET made == InstructorOfFields(fields) IN
    IF ~AllFilled(fields) THEN Refused("tk.add_instructor", fields, InputError)
    ELSE IF made.raised # NoError
    THEN Refused("tk.add_instructor", fields, made.raised)
    ELSE add_instructor(InstructorParameters(made.object))

\* the edit dialog of a student that was selected is saved with fields
tk_save_student_edit(fields) ==
    LET made == StudentOfFields(fields) IN
    /\ StudentKeyTaken(fields.id)
    /\ IF made.raised # NoError
       THEN Refused("tk.save_student_edit", fields, made.raised)
       ELSE update_student(StudentParameters(made.object))

tk_save_instructor_edit(fields) ==
    LET made == InstructorOfFields(fields) IN
    /\ InstructorKeyTaken(fields.id)
    /\ IF made.raised # NoError
       THEN Refused("tk.save_instructor_edit", fields, made.raised)
       ELSE update_instructor(InstructorParameters(made.object))

NextForms ==
    \/ \E fields \in FormFields : pyqt_add_student(fields)
    \/ \E fields \in InstructorFormFields : pyqt_add_instructor(fields)
    \/ \E fields \in FormFields : pyqt_edit_student(fields)
    \/ \E fields \in InstructorFormFields : pyqt_edit_instructor(fields)
    \/ \E fields \in FormFields : tk_add_student(fields)
    \/ \E fields \in InstructorFormFields : tk_add_instructor(fields)
    \/ \E fields \in FormFields : tk_save_student_edit(fields)
    \/ \E fields \in InstructorFormFields : tk_save_instructor_edit(fields)

SpecForms == Init /\ [][NextForms]_vars

(***************************************************************************)
(* Validation before storage.                                              *)
(***************************************************************************)
Forms ==
    {"pyqt.add_student", "pyqt.add_instructor", "pyqt.edit_record",
     "tk.add_student", "tk.add_instructor", "tk.save_student_edit",
     "tk.save_instructor_edit"}

PersonWrites ==
    {"add_student", "update_student", "add_instructor", "update_instructor"}

\* C20: in the add and edit forms of both front ends a failed construction
\* of the Student or Instructor (age text that is no integer, negative age,
\* email without '@' or '.') changes no table and issues no insert or
\* update: a form that stopped left every table as it was and showed the
\* ValueError, and every insert or update a form issued carries a
\* non-negative integer age and an email with both characters.
C20_ValidationBeforeStorage ==
    [][/\ last'.op \in Forms =>
             /\ UNCHANGED tables
             /\ last'.raised \in ValueError \cup {IntError, InputError}
             /\ last'.rowcount = -1
       /\ last'.op \in PersonWrites =>
             /\ last'.args.age.type = "int"
             /\ last'.args.age.value >= 0
             /\ Occurs("@", last'.args.email)
             /\ Occurs(".", last'.args.email)
       /\ last'.op \in Forms \cup PersonWrites]_vars

\* the Tkinter edit dialog of a stored student of age 22 was saved with the
\* age -2 and refused
C20_Witness ==
    /\ last.op = "tk.save_student_edit"
    /\ last.args.age = <<"-", "2">>
    /\ last.raised = AgeError
    /\ get_student_by_id(last.args.id) # None
    /\ get_student_by_id(last.args.id).age = PyInt(22)

(***************************************************************************)
(* Backup and schema bootstrap.                                            *)
(***************************************************************************)
\* datetime.datetime.now().strftime("%Y%m%d_%H%M%S"): the clock has a
\* resolution of one second, two calls may read the same second
Timestamps == {"20251003_101500", "20251003_101501"}

\* f"{self.db_name}_backup_{timestamp}.db"
backup_filename(timestamp) == db_name \o "_backup_" \o timestamp \o ".db"

\* shutil.copy2 copies school.db, or stops with an OSError (disk full, file
\* unreadable) having written nothing or a part of the file
CopyOutcomes == {"copied", "OSError"}
Truncated == [truncated |-> TRUE]

\* the file name is written over whatever files held under it
WriteFile(name, rows) == (name :> rows) @@ files

\* backup_database that lets the OSError of the copy reach its caller
backup_database_raising ==
    \E timestamp \in Timestamps, copy \in CopyOutcomes :
        LET name == backup_filename(timestamp) IN
        /\ IF copy = "copied"
           THEN /\ files' = WriteFile(name, committed)
                /\ last' = Returned("backup_database", copy, name)
           ELSE /\ files' \in {files, WriteFile(name, Truncated)}
                /\ last' = [Returned("backup_database", copy, NULL)
                               EXCEPT !.raised = "OSError"]
        /\ UNCHANGED <<tables, committed, conn, window>>

\* the outcome of the copy is recorded as the argument of the call
backup_database ==
    \E timestamp \in Timestamps, copy \in CopyOutcomes :
        LET name == backup_filename(timestamp) IN
        /\ IF copy = "copied"
           THEN /\ files' = WriteFile(name, committed)
                /\ last' = Returned("backup_database", copy, name)
           ELSE /\ files' \in {files, WriteFile(name, Truncated)}
                /\ last' = Returned("backup_database", copy, NULL)
        /\ UNCHANGED <<tables, committed, conn, window>>

\* what open('database_schema.sql') and executescript meet: no file, a
\* script sqlite rejects, or the four CREATE TABLE IF NOT EXISTS statements
SchemaFiles == {"missing", "malformed", "create if not exists"}

\* a database_schema.sql that drops the relations before creating them
setup_database_recreate ==
    \E schema \in SchemaFiles :
        /\ last' = Returned("setup_database", schema, NULL)
        /\ IF schema = "create if not exists" /\ conn = "open"
           THEN /\ students' = EmptyBag /\ instructors' = EmptyBag
                /\ courses' = EmptyBag /\ registrations' = EmptyBag
                /\ committed' = Store'
           ELSE UNCHANGED <<tables, committed>>
        /\ UNCHANGED process

\* FileNotFoundError and every other exception are printed; the relations
\* exist since the application's start, so the script creates none
setup_database ==
    \E schema \in SchemaFiles :
        /\ last' = Returned("setup_database", schema, NULL)
        /\ IF schema = "create if not exists" /\ conn = "open"
           THEN /\ UNCHANGED tables
                /\ committed' = Store
           ELSE UNCHANGED <<tables, committed>>
        /\ UNCHANGED process

(***************************************************************************)
(* The callers add, rename, remove and register students, back the file up *)
(* and run the bootstrap again.                                            *)
(***************************************************************************)
MaxStored == 2
StoreHasRoom == TotalRows < MaxStored

NextFiles ==
    \/ \E s \in Student : StoreHasRoom /\ add_student(s)
    \/ \E s \in Student : update_student(s)
    \/ \E id \in StudentIds : delete_student(id)
    \/ \E sid \in StudentIds :
          StoreHasRoom /\ register_student_in_course(sid, "C1")
    \/ backup_database
    \/ setup_database

SpecFiles == Init /\ [][NextFiles]_vars

(***************************************************************************)
(* C21: backup_database never raises: it returns the name of the new file  *)
(* when the copy succeeded and the none-value when it failed, and in both  *)
(* cases the rows of the source store are the ones it held before.         *)
(***************************************************************************)
C21_BackupNeverRaises ==
    [][last'.op = "backup_database" =>
          /\ last'.raised = NoError
          /\ UNCHANGED <<tables, committed>>
          /\ last'.args = "copied" =>
                 /\ last'.returned # NULL
                 /\ last'.returned \in DOMAIN files'
          /\ last'.args = "OSError" => last'.returned = NULL]_vars

\* a copy has failed on a store that holds rows and an earlier backup
C21_Witness ==
    /\ last.op = "backup_database"
    /\ last.args = "OSError"
    /\ last.returned = NULL
    /\ TotalRows > 0
    /\ \E name \in DOMAIN files : files[name] # Truncated

(***************************************************************************)
(* C22: a successful backup_database returns a file name that is not the   *)
(* source file's, and the backup holds exactly the rows the add, update,   *)
(* delete and register calls completed before it have produced: each of    *)
(* them has committed before it returned.                                  *)
(***************************************************************************)
C22_BackupHoldsCompletedCalls ==
    /\ [](committed = Store)
    /\ [][last'.op = "backup_database" /\ last'.returned # NULL =>
             /\ last'.returned # db_name
             /\ last'.returned \in DOMAIN files'
             /\ files'[last'.returned] = Store]_vars

\* the backup was taken of a store with a student and a registration, after
\* an earlier backup of the store when it was empty
C22_Witness ==
    /\ last.op = "backup_database"
    /\ last.returned # NULL
    /\ files[last.returned] = Store
    /\ BagCardinality(students) > 0
    /\ BagCardinality(registrations) > 0
    /\ \E name \in DOMAIN files :
          /\ name # last.returned
          /\ files[name] # Truncated
          /\ files[name] # Store

(***************************************************************************)
(* C23: setup_database never raises: with the schema file missing or the   *)
(* script failing it reports and returns, and the rows are untouched;      *)
(* run again on a store that holds rows it leaves them as they are.        *)
(***************************************************************************)
C23_SetupIdempotent ==
    [][last'.op = "setup_database" =>
          /\ last'.raised = NoError
          /\ UNCHANGED <<tables, committed>>]_vars

\* the script was applied again to a store that holds rows
C23_Witness ==
    /\ last.op = "setup_database"
    /\ last.args = "create if not exists"
    /\ TotalRows = MaxStored

(***************************************************************************)
(* The registration screen while students leave and come back: the store   *)
(* of InitDisplay, whose students are also deleted and added again and     *)
(* whose courses are also deleted.                                         *)
(***************************************************************************)
NextRoster ==
    \/ \E sid \in StudentIds, cid \in CourseIds :
          register_student_in_course(sid, cid)
    \/ \E s \in Student : update_student(s)
    \/ \E c \in Course : c.instructor = None /\ update_course(c)
    \/ \E id \in StudentIds : delete_student(id)
    \/ \E s \in Student : add_student(s)
    \/ \E id \in CourseIds : delete_course(id)
    \/ get_registrations_for_display

SpecRoster == InitDisplay /\ [][NextRoster]_vars

\* the rows of the list that name student sid and course cid
RowsOf(list, sid, cid) ==
    {i \in DOMAIN list : list[i][1] = sid /\ list[i][3] = cid}

(***************************************************************************)
(* C24: get_registrations_for_display returns exactly one row for every    *)
(* registration whose student and course both exist, carrying the name the *)
(* student and the course have now, and no row for any other pair.         *)
(***************************************************************************)
C24_DisplayIsTheJoin ==
    last.op = "get_registrations_for_display" =>
        \A sid \in StudentIds, cid \in CourseIds :
            LET shown == RowsOf(last.returned, sid, cid)
                both == /\ RegistrationTaken(sid, cid)
                        /\ StudentKeyTaken(sid)
                        /\ CourseKeyTaken(cid)
            IN  /\ Cardinality(shown) = IF both THEN 1 ELSE 0
                /\ \A i \in shown :
                      /\ \E s \in DOMAIN students :
                            /\ s.student_id = sid
                            /\ s.name = last.returned[i][2]
                      /\ \E c \in DOMAIN courses :
                            /\ c.course_id = cid
                            /\ c.course_name = last.returned[i][4]
                /\ Len(last.returned) =
                      Cardinality(UNION {RowsOf(last.returned, s, c) :
                                           s \in StudentIds, c \in CourseIds})

\* one registration is shown while another one, of a deleted student or
\* course, is not, and a pair that is not registered is absent
C24_Witness ==
    /\ last.op = "get_registrations_for_display"
    /\ Len(last.returned) = 1
    /\ BagCardinality(registrations) = 2
    /\ \E sid \in StudentIds, cid \in CourseIds :
          /\ ~RegistrationTaken(sid, cid)
          /\ StudentKeyTaken(sid) /\ CourseKeyTaken(cid)

(***************************************************************************)
(* C28: a student added again under the identifier of a student that       *)
(* delete_student removed is shown in no row of                            *)
(* get_registrations_for_display before register_student_in_course is      *)
(* called for it: the list fetched right after the add_student that        *)
(* succeeded has no row of that identifier.  (Both students are stored at  *)
(* the start, so an add_student that succeeds follows a delete_student of  *)
(* its identifier.)                                                        *)
(***************************************************************************)
C28_ReaddedStudentUnregistered ==
    [][(/\ last.op = "add_student"
        /\ last.raised = NoError
        /\ last'.op = "get_registrations_for_display") =>
           \A i \in DOMAIN last'.returned :
               last'.returned[i][1] # last.args.student_id]_vars

(***************************************************************************)
(* Editing a course in the two front ends: only the name is edited, the    *)
(* instructor is carried over from the stored row.                         *)
(***************************************************************************)
\* the instructors the callers of add_course assign: Instructor.__init__
\* validates the age and the email, and takes any instructor_id
AssignedInstructorIds == {"I1", ""}
AssignedInstructors ==
    [instructor_id : AssignedInstructorIds, name : {"Ann"}, age : Ages,
     email : Emails]
AssignedCourses ==
    [course_id : CourseIds, course_name : CourseNames,
     instructor : AssignedInstructors \cup {None}]

\* "if data[2]": a fetched TEXT column is false when it is None or ''
Truth(value) == value # NULL /\ value # ""

\* Instructor("dummy", 0, "dummy@email.com", instructor_id)
DummyEmail ==
    <<"d", "u", "m", "m", "y", "@", "e", "m", "a", "i", "l", ".", "c", "o",
      "m">>
Dummy(instructor_id) ==
    Instructor_init("dummy", PyInt(0), DummyEmail, instructor_id)

\* the object edit_record hands to update_course
EditedCourse(course_id, name, data) ==
    IF Truth(data.instructor_id)
    THEN Course_init(course_id, name, Dummy(data.instructor_id).object)
    ELSE Course_init(course_id, name, None)

\* edit_record on a selected course: EditCourseDialog is accepted with name
pyqt_edit_course(course_id, name) ==
    LET data == get_course_by_id(course_id) IN
    /\ CourseKeyTaken(course_id)
    /\ IF Truth(data.instructor_id)
          /\ Dummy(data.instructor_id).raised # NoError
       THEN Refused("pyqt.edit_record", course_id,
                    Dummy(data.instructor_id).raised)
       ELSE update_course(EditedCourse(course_id, name, data))

\* the edit dialog of a course that was selected is saved with name
tk_save_course_edit(course_id, name) ==
    LET data == get_course_by_id(course_id) IN
    /\ CourseKeyTaken(course_id)
    /\ IF Truth(data.instructor_id)
          /\ Dummy(data.instructor_id).raised # NoError
       THEN Refused("tk.save_course_edit", course_id,
                    Dummy(data.instructor_id).raised)
       ELSE update_course(EditedCourse(course_id, name, data))

NextCourseForms ==
    \/ \E c \in AssignedCourses : HasRoom /\ add_course(c)
    \/ \E id \in CourseIds : delete_course(id)
    \/ \E id \in CourseIds, name \in CourseNames :
          pyqt_edit_course(id, name)
    \/ \E id \in CourseIds, name \in CourseNames :
          tk_save_course_edit(id, name)

SpecCourseForms == Init /\ [][NextCourseForms]_vars

(***************************************************************************)
(* C25: editing the name of a course in either front end preserves the     *)
(* instructor_id the course is stored with: after the edit the row has the *)
(* new course_name and the instructor_id it had (null stays null).         *)
(***************************************************************************)
C25_EditKeepsInstructor ==
    [][last'.op = "update_course" =>
          \A r \in DOMAIN courses :
              r.course_id = last'.args.course_id =>
                  [r EXCEPT !.course_name = last'.args.course_name]
                      \in DOMAIN courses']_vars

(***************************************************************************)
(* The life of a front end: its callbacks run while the window is shown,   *)
(* and closing the window closes the connection.                           *)
(***************************************************************************)
\* self.conn.close()
close_connection ==
    /\ conn' = "closed"
    /\ last' = Call("close_connection", <<>>, NoError, -1)
    /\ UNCHANGED <<tables, committed, files>>

\* mainloop() and exec_() dispatch the callbacks of a window that exists
Shown == window = "shown"

\* on_closing that closes the connection and leaves the window up
tk_on_closing_stay ==
    /\ Shown
    /\ close_connection
    /\ UNCHANGED window

\* WM_DELETE_WINDOW: close_connection(), then root.destroy() ends mainloop()
tk_on_closing ==
    /\ Shown
    /\ close_connection
    /\ window' = "destroyed"

\* closeEvent: close_connection(), then event.accept() closes the window
\* and exec_() returns
pyqt_closeEvent ==
    /\ Shown
    /\ close_connection
    /\ window' = "destroyed"

NextLifecycle ==
    \/ \E fields \in FormFields : Shown /\ pyqt_add_student(fields)
    \/ \E fields \in FormFields : Shown /\ pyqt_edit_student(fields)
    \/ \E fields \in FormFields : Shown /\ tk_add_student(fields)
    \/ \E fields \in FormFields : Shown /\ tk_save_student_edit(fields)
    \/ tk_on_closing
    \/ pyqt_closeEvent

SpecLifecycle == Init /\ [][NextLifecycle]_vars

(***************************************************************************)
(* C26: in each front end the connection is closed exactly once, when the  *)
(* window is closed, and no operation of the manager is invoked after      *)
(* close_connection: the connection is closed in the states where the      *)
(* window is gone and in no other, close_connection is called in the steps *)
(* that close the window and in no other, and every call is made on an     *)
(* open connection.                                                        *)
(***************************************************************************)
C26_ClosedOnceAtExit ==
    /\ [](conn = "closed" <=> window = "destroyed")
    /\ [][/\ conn = "open"
          /\ last'.op = "close_connection" <=>
                 (window = "shown" /\ window' = "destroyed")
          /\ last'.op = "close_connection" <=>
                 (conn = "open" /\ conn' = "closed")]_vars

\* the window was closed on a store the forms have written to
C26_Witness ==
    /\ conn = "closed"
    /\ window = "destroyed"
    /\ last.op = "close_connection"
    /\ BagCardinality(students) > 0

(***************************************************************************)
(* The lists of the domain objects.                                        *)
(***************************************************************************)
ListMethods == {"register_course", "assign_course", "Course.add_student"}

\* the list of object the method op appends to
ListOf(object, op) ==
    CASE op = "register_course" -> object.registered_courses
      [] op = "assign_course" -> object.assigned_courses
      [] op = "Course.add_student" -> object.enrolled_students

(***************************************************************************)
(* C27: Student.register_course, Instructor.assign_course and              *)
(* Course.add_student are idempotent on the list they keep: after a call   *)
(* the list holds the argument, holds no object twice, starts with the     *)
(* list as it was before the call (the order of first insertion), and is   *)
(* the list as it was when the argument was already in it.                 *)
(***************************************************************************)
C27_ListsIdempotent ==
    [][last'.op \in ListMethods =>
          LET before == ListOf(last.returned, last'.op)
              after == ListOf(last'.returned, last'.op)
          IN  /\ last'.raised = NoError
              /\ \E i \in DOMAIN after : after[i] = last'.args
              /\ \A i, j \in DOMAIN after : after[i] = after[j] => i = j
              /\ Len(before) <= Len(after)
              /\ SubSeq(after, 1, Len(before)) = before
              /\ (\E i \in DOMAIN before : before[i] = last'.args)
                     => last'.returned = last.returned]_vars

\* the call was repeated for the object inserted first, into a list of two
C27_Witness ==
    /\ last.op \in ListMethods
    /\ Len(ListOf(last.returned, last.op)) = 2
    /\ ListOf(last.returned, last.op)[1] = last.args

(***************************************************************************)
(* Reading the relations.                                                  *)
(***************************************************************************)
\* fetchall() of a SELECT without ORDER BY: the rows of t, each as often as
\* t holds it, in an order the engine chooses
Listings(t) ==
    LET n == Cardinality(Items(t))
        orders == {f \in [1..n -> Items(t)] :
                      \A i, j \in 1..n : f[i] = f[j] => i = j}
    IN  {[i \in 1..n |-> f[i][1]] : f \in orders}

\* get_all_students that runs a DELETE before its SELECT
get_all_students_clearing ==
    /\ students' = EmptyBag
    /\ last' = Returned("get_all_students", <<>>, <<>>)
    /\ UNCHANGED <<instructors, courses, registrations>>
    /\ commit
    /\ UNCHANGED process

get_all_students ==
    /\ \E list \in Listings(students) :
          last' = Returned("get_all_students", <<>>, list)
    /\ UNCHANGED <<tables, committed, process>>

get_all_instructors ==
    /\ \E list \in Listings(instructors) :
          last' = Returned("get_all_instructors", <<>>, list)
    /\ UNCHANGED <<tables, committed, process>>

get_all_courses ==
    /\ \E list \in Listings(courses) :
          last' = Returned("get_all_courses", <<>>, list)
    /\ UNCHANGED <<tables, committed, process>>

\* get_student_by_id, get_instructor_by_id and get_course_by_id as calls:
\* the row fetchone() returns is recorded
get_by_id ==
    /\ \/ \E id \in StudentIds :
             last' = Returned("get_student_by_id", id, get_student_by_id(id))
       \/ \E id \in InstructorIds :
             last' = Returned("get_instructor_by_id", id,
                              get_instructor_by_id(id))
       \/ \E id \in CourseIds :
             last' = Returned("get_course_by_id", id, get_course_by_id(id))
    /\ UNCHANGED <<tables, committed, process>>

\* the store holds at most MaxListed rows
MaxListed == 3
ListedHasRoom == TotalRows < MaxListed

NextReads ==
    \/ \E s \in Student : ListedHasRoom /\ add_student(s)
    \/ \E s \in Student : update_student(s)
    \/ \E id \in StudentIds : delete_student(id)
    \/ \E i \in Instructor : ListedHasRoom /\ add_instructor(i)
    \/ \E i \in Instructor : update_instructor(i)
    \/ \E id \in InstructorIds : delete_instructor(id)
    \/ \E c \in Course : ListedHasRoom /\ add_course(c)
    \/ \E c \in Course : update_course(c)
    \/ \E id \in CourseIds : delete_course(id)
    \/ \E sid \in StudentIds, cid \in CourseIds :
          ListedHasRoom /\ register_student_in_course(sid, cid)
    \/ get_all_students
    \/ get_all_instructors
    \/ get_all_courses
    \/ get_by_id
    \/ get_registrations_for_display

SpecReads == Init /\ [][NextReads]_vars

(***************************************************************************)
(* The relations as maps from identifier to row.                           *)
(***************************************************************************)
Entities == {"student", "instructor", "course"}

TableOf(e) ==
    CASE e = "student" -> students
      [] e = "instructor" -> instructors
      [] e = "course" -> courses

KeyOf(e) == e \o "_id"

\* the row an add or update of entity e writes for its argument
RowOf(e, args) == IF e = "course" THEN CourseRow(args) ELSE args

\* the rows of t under their identifiers
MapOf(t, key) ==
    [id \in {r[key] : r \in DOMAIN t} |->
        CHOOSE r \in DOMAIN t : r[key] = id]

\* t holds one row for each identifier in it
IsMap(t, key) ==
    \A r \in DOMAIN t :
        /\ t[r] = 1
        /\ \A q \in DOMAIN t : q[key] = r[key] => q = r

\* the operations of a map
MapAdd(m, id, row) ==
    [k \in DOMAIN m \cup {id} |-> IF k = id THEN row ELSE m[k]]
MapUpdate(m, id, row) ==
    IF id \in DOMAIN m THEN [m EXCEPT ![id] = row] ELSE m
MapDelete(m, id) == [k \in DOMAIN m \ {id} |-> m[k]]

ReadOperations ==
    {"get_all_students", "get_all_instructors", "get_all_courses",
     "get_student_by_id", "get_instructor_by_id", "get_course_by_id",
     "get_registrations_for_display"}

(***************************************************************************)
(* C29: the students, the instructors and the courses are at all times a   *)
(* map from identifier to fields: an add that succeeds binds a new         *)
(* identifier and one that fails changes nothing, an update rebinds a      *)
(* bound identifier and does nothing for another, a delete unbinds, every  *)
(* other call leaves the map alone, and get_all returns the rows of the    *)
(* map, each once.  The reads get_all, get_by_id and                       *)
(* get_registrations_for_display change no relation.                       *)
(***************************************************************************)
C29_TablesRefineMaps ==
    /\ [](\A e \in Entities : IsMap(TableOf(e), KeyOf(e)))
    /\ [][\A e \in Entities :
            LET key == KeyOf(e)
                m0 == MapOf(TableOf(e), key)
                m1 == MapOf(TableOf(e)', key)
                args == last'.args
            IN  CASE last'.op = "add_" \o e ->
                       LET row == RowOf(e, args) IN
                       /\ last'.raised = NoError <=> row[key] \notin DOMAIN m0
                       /\ m1 = IF last'.raised = NoError
                               THEN MapAdd(m0, row[key], row) ELSE m0
                  [] last'.op = "update_" \o e ->
                       /\ last'.raised = NoError
                       /\ m1 = MapUpdate(m0, RowOf(e, args)[key],
                                         RowOf(e, args))
                  [] last'.op = "delete_" \o e ->
                       /\ last'.raised = NoError
                       /\ m1 = MapDelete(m0, args)
                  [] last'.op = "get_all_" \o e \o "s" ->
                       /\ m1 = m0
                       /\ Len(last'.returned) = Cardinality(DOMAIN m0)
                       /\ \A id \in DOMAIN m0 :
                             \E i \in DOMAIN last'.returned :
                                 last'.returned[i] = m0[id]
                  [] OTHER -> m1 = m0]_vars
    /\ [][last'.op \in ReadOperations =>
             /\ UNCHANGED <<tables, committed>>
             /\ last'.raised = NoError]_vars

\* all students were listed after one of them was added, renamed, deleted
\* and added again while another stayed
C29_Witness ==
    /\ last.op = "get_all_students"
    /\ Len(last.returned) = 2
    /\ last.returned[1].student_id = "S2"
    /\ last.returned[1].name # last.returned[2].name
    /\ BagCardinality(courses) = 1

(***************************************************************************)
(* The registration dropdowns of the Tkinter front end: texts are          *)
(* sequences of characters.                                                *)
(***************************************************************************)
\* an identifier typed into an add form has 1..MaxIdLen characters (the
\* forms refuse the empty text only)
MaxIdLen == 2
IdChars == {"S", "(", ")"}
IdTexts == UNION {[1..n -> IdChars] : n \in 1..MaxIdLen}
ShownNames == {<<"A">>, <<"A", "(">>, <<")", "A">>}

\* f"{s[1]} ({s[0]})"
Label(name, id) == name \o <<" ", "(">> \o id \o <<")">>

\* text.split(sep)[-1]: what follows the last sep, the text without one
LastField(text, sep) ==
    LET at == {i \in DOMAIN text : text[i] = sep}
        from == IF at = {} THEN 1
                ELSE 1 + CHOOSE i \in at : \A j \in at : j <= i
    IN  SubSeq(text, from, Len(text))

\* text.strip(ch): the text without its leading and trailing ch
strip(text, ch) ==
    LET keep == {i \in DOMAIN text : text[i] # ch} IN
    IF keep = {} THEN <<>>
    ELSE SubSeq(text, CHOOSE i \in keep : \A j \in keep : i <= j,
                      CHOOSE i \in keep : \A j \in keep : j <= i)

\* register_student_for_course with the entries of student and course
\* selected in the dropdowns that update_comboboxes filled
tk_register_student_for_course(student, course) ==
    LET student_sel == Label(student.name, student.student_id)
        course_sel == Label(course.course_name, course.course_id)
        student_id == strip(LastField(student_sel, "("), ")")
        course_id == strip(LastField(course_sel, "("), ")")
    IN  register_student_in_course(student_id, course_id)

\* school.db holds one student and one course, added through the forms
InitDropdowns ==
    /\ \E id \in IdTexts, name \in ShownNames :
          students = SetToBag({[student_id |-> id, name |-> name,
                                age |-> 20, email |-> "ann@x.com"]})
    /\ instructors = EmptyBag
    /\ \E id \in IdTexts :
          courses = SetToBag({[course_id |-> id, course_name |-> <<"A">>,
                               instructor_id |-> NULL]})
    /\ registrations = EmptyBag
    /\ last = Call("__init__", <<>>, NoError, -1)
    /\ Started

NextDropdowns ==
    \E student \in DOMAIN students, course \in DOMAIN courses :
        Shown /\ tk_register_student_for_course(student, course)

SpecDropdowns == InitDropdowns /\ [][NextDropdowns]_vars

====
